---- MODULE Spec2Model ----
(***************************************************************************)
(* A model of precastro.py: the Time class (factories, readers and the     *)
(* timescale conversions), the status checks on the SOFA/NOVAS kernel and  *)
(* the barycentric correction.                                             *)
(*                                                                         *)
(* Numbers.  A Python float is modelled as an integer count of 1/256 day   *)
(* (DayUnits per day) that fits a binary significand of MantBits bits;     *)
(* every float operation rounds its exact result to such a value (round to *)
(* nearest, ties to even), as IEEE-754 does with 53 bits.                  *)
(*                                                                         *)
(* None.  Python's None is the empty tuple for a numeric attribute (a set  *)
(* number v is <<v>>) and the name NoTimescale for the timescale.          *)
(*                                                                         *)
(* The kernel (_precastro) is external: each kernel routine is the set of  *)
(* values it may return, and a method is the set of outcomes it may have.  *)
(***************************************************************************)
EXTENDS Integers, Sequences, FiniteSets, TLC

VARIABLES
    heap,   \* the live Time objects; heap[1] is the Time the operations act on
    op,     \* the last operation and its arguments
    ret,    \* what the last operation returned
    err,    \* the exception the last operation raised (kind "none": none)
    calls   \* the kernel calls the last operation made, in order

vars == <<heap, op, ret, err, calls>>

----------------------------------------------------------------------------
(* Floating point *)

MantBits == 23

DayUnits == 2 ^ 8

RECURSIVE Ulp(_)
Ulp(a) == IF a < 2 ^ MantBits THEN 1 ELSE 2 * Ulp(a \div 2)

RoundMag(a) ==
    LET u == Ulp(a)
        q == a \div u
        r == a % u
    IN  IF 2 * r < u THEN q * u
        ELSE IF 2 * r > u THEN (q + 1) * u
        ELSE IF q % 2 = 0 THEN q * u
        ELSE (q + 1) * u

RoundF(v) == IF v < 0 THEN 0 - RoundMag(0 - v) ELSE RoundMag(v)

FAdd(a, b) == RoundF(a + b)

FSub(a, b) == RoundF(a - b)

\* float (x)
ToFloat(x) == RoundF(x)

None == << >>

Some(v) == <<v>>

IsNum(o) == o # None

----------------------------------------------------------------------------
(* Module constants *)

\* the set with one name lost
oktimescales_noTCG == {"TAI", "UTC", "UT1", "TT", "TCB", "TDB"}

oktimescales == {"TAI", "UTC", "UT1", "TT", "TCG", "TCB", "TDB"}

NoTimescale == "None"

\* 2400000.5, the Julian Date of the MJD epoch
MJD0 == 4800001 * (DayUnits \div 2)

\* 2440587.5, the Julian Date of the POSIX epoch
POSIX0 == 4881175 * (DayUnits \div 2)

\* 2451545.0, J2000.0
J2000 == 2451545 * DayUnits

----------------------------------------------------------------------------
(* Exceptions *)

NoErr == [kind |-> "none", func |-> "", code |-> 0, timescale |-> ""]

ValueError == [kind |-> "ValueError", func |-> "", code |-> 0, timescale |-> ""]

TypeError == [kind |-> "TypeError", func |-> "", code |-> 0, timescale |-> ""]

SofaError(func, code) ==
    [kind |-> "SofaError", func |-> func, code |-> code, timescale |-> ""]

NovasError(func, code) ==
    [kind |-> "NovasError", func |-> func, code |-> code, timescale |-> ""]

UnsupportedTimescaleError(timescale) ==
    [kind |-> "UnsupportedTimescaleError", func |-> "", code |-> 0,
     timescale |-> timescale]

\* a check that lets every name through
checktimescale_lax(timescale) == NoErr

checktimescale(timescale) ==
    IF timescale \notin oktimescales THEN ValueError ELSE NoErr

checksofacode(func, code, dubiousok) ==
    IF code = 1 /\ ~dubiousok THEN SofaError(func, code)
    ELSE IF code # 0 THEN SofaError(func, code)
    ELSE NoErr

----------------------------------------------------------------------------
(* The kernel: each routine is the set of values it may return *)

\* the statuses of a SOFA routine: 0 is success, 1 is "dubious year"
SofaCodes == {-1, 0, 1, 2}

\* the two-part Julian Dates a kernel routine may hand back
KernelJDs == {<<MJD0, 0>>, <<J2000, DayUnits \div 2>>}

KRet(code, out) == [code |-> code, out |-> out]

iauDtf2d(scale, cal) == {KRet(c, jd) : c \in SofaCodes, jd \in KernelJDs}

iauTaitt(jd1, jd2) == {KRet(c, jd) : c \in SofaCodes, jd \in KernelJDs}

iauUtctai(jd1, jd2) == {KRet(c, jd) : c \in SofaCodes, jd \in KernelJDs}

iauEpj2jd(epj) == {KRet(0, jd) : jd \in KernelJDs}

\* one kernel call as the log keeps it
Call(fn, tag, args, r) ==
    [fn |-> fn, tag |-> tag, args |-> args, code |-> r.code, out |-> r.out]

----------------------------------------------------------------------------
(* Time *)

Time(jd1, jd2, timescale) == [jd1 |-> jd1, jd2 |-> jd2, timescale |-> timescale]

\* Time (): the class attributes jd1 = jd2 = timescale = None
NewTime == Time(None, None, NoTimescale)

\* an outcome of a method: the heap it leaves, the object (ref) or number
\* (val) it returns, the exception it raises, the kernel calls it made
Ok(h, ref, val, cs) == [h |-> h, ref |-> ref, val |-> val, err |-> NoErr, calls |-> cs]

Fail(h, e, cs) == [h |-> h, ref |-> 0, val |-> None, err |-> e, calls |-> cs]

fromPOSIX(h, s, time) ==
    {Ok([h EXCEPT ![s] = Time(Some(POSIX0),
                              Some(ToFloat((time * DayUnits) \div 86400)),
                              "UTC")],
        s, None, << >>)}

\* fromnow: fromPOSIX of what the computer clock reads
fromnow(h, s, clock) == fromPOSIX(h, s, clock)

\* the date put in the second component
fromJD_swapped(h, s, jd, timescale) ==
    LET e == checktimescale(timescale)
    IN  IF e # NoErr THEN {Fail(h, e, << >>)}
        ELSE {Ok([h EXCEPT ![s] = Time(Some(0), Some(ToFloat(jd)), timescale)],
                 s, None, << >>)}

fromJD(h, s, jd, timescale) ==
    LET e == checktimescale(timescale)
    IN  IF e # NoErr THEN {Fail(h, e, << >>)}
        ELSE {Ok([h EXCEPT ![s] = Time(Some(ToFloat(jd)), Some(0), timescale)],
                 s, None, << >>)}

fromMJD(h, s, mjd, timescale) ==
    LET e == checktimescale(timescale)
    IN  IF e # NoErr THEN {Fail(h, e, << >>)}
        ELSE {Ok([h EXCEPT ![s] = Time(Some(MJD0), Some(mjd), timescale)],
                 s, None, << >>)}

fromcalendar(h, s, cal, timescale, dubiousok) ==
    LET e == checktimescale(timescale)
    IN  IF e # NoErr THEN {Fail(h, e, << >>)}
        ELSE {LET h1 == [h EXCEPT ![s].jd1 = Some(r.out[1]),
                                  ![s].jd2 = Some(r.out[2])]
                  cs == <<Call("iauDtf2d", timescale, cal, r)>>
                  e2 == checksofacode("dtf2d", r.code, dubiousok)
              IN  IF e2 # NoErr THEN Fail(h1, e2, cs)
                  ELSE Ok([h1 EXCEPT ![s].timescale = timescale], s, None, cs)
              : r \in iauDtf2d(timescale, cal)}

fromfdcal(h, s, ymd, fday, timescale, dubiousok) ==
    LET e == checktimescale(timescale)
        cal == ymd \o <<0, 0, 0>>
    IN  IF e # NoErr THEN {Fail(h, e, << >>)}
        ELSE {LET h1 == [h EXCEPT ![s].jd1 = Some(r.out[1]),
                                  ![s].jd2 = Some(r.out[2])]
                  cs == <<Call("iauDtf2d", timescale, cal, r)>>
                  e2 == checksofacode("dtf2d", r.code, dubiousok)
              IN  IF e2 # NoErr THEN Fail(h1, e2, cs)
                  ELSE Ok([h1 EXCEPT ![s].jd2 = Some(FAdd(r.out[2], fday)),
                                     ![s].timescale = timescale],
                          s, None, cs)
              : r \in iauDtf2d(timescale, cal)}

fromjepoch(h, s, julian_epoch) ==
    {Ok([h EXCEPT ![s] = Time(Some(r.out[1]), Some(r.out[2]), "TT")],
        s, None, <<Call("iauEpj2jd", "", <<julian_epoch>>, r)>>)
     : r \in iauEpj2jd(julian_epoch)}

asJD(h, s) ==
    IF IsNum(h[s].jd1) /\ IsNum(h[s].jd2)
    THEN Ok(h, 0, Some(FAdd(h[s].jd1[1], h[s].jd2[1])), << >>)
    ELSE Fail(h, TypeError, << >>)

\* the epoch subtracted from the sum: (jd1 + jd2) - 2400000.5
asMJD_sumfirst(h, s) ==
    IF IsNum(h[s].jd1) /\ IsNum(h[s].jd2)
    THEN Ok(h, 0, Some(FSub(FAdd(h[s].jd1[1], h[s].jd2[1]), MJD0)), << >>)
    ELSE Fail(h, TypeError, << >>)

asMJD(h, s) ==
    IF IsNum(h[s].jd1) /\ IsNum(h[s].jd2)
    THEN Ok(h, 0, Some(FAdd(FSub(h[s].jd1[1], MJD0), h[s].jd2[1])), << >>)
    ELSE Fail(h, TypeError, << >>)

\* "return self" in place of the copy
asTT_identity_alias(h, s) == {Ok(h, s, None, << >>)}

\* the two components copied crosswise
asTT_identity_swapped(h, s) ==
    {Ok(Append(h, Time(h[s].jd2, h[s].jd1, "TT")), Len(h) + 1, None, << >>)}

\* asTT of a TT Time: res = Time (), tagged 'TT', with the components of self
asTT_identity(h, s) ==
    {Ok(Append(h, Time(h[s].jd1, h[s].jd2, "TT")), Len(h) + 1, None, << >>)}

\* the error made from the timescale of res, not of self
asTT_unsupported_res(h, s) == {Fail(h, UnsupportedTimescaleError("TT"), << >>)}

\* asTT of a Time that is none of TT, TAI, UTC
asTT_unsupported(h, s) ==
    {Fail(h, UnsupportedTimescaleError(h[s].timescale), << >>)}

asTT(h, s, dubiousok) ==
    LET me == h[s]
        res == Len(h) + 1
        new(jd) == Append(h, Time(Some(jd[1]), Some(jd[2]), "TT"))
    IN  CASE me.timescale = "TT" -> asTT_identity(h, s)
          [] me.timescale = "TAI" ->
              {LET cs == <<Call("iauTaitt", "", <<me.jd1[1], me.jd2[1]>>, r)>>
                   e == checksofacode("taitt", r.code, dubiousok)
               IN  IF e # NoErr THEN Fail(h, e, cs)
                   ELSE Ok(new(r.out), res, None, cs)
               : r \in iauTaitt(me.jd1[1], me.jd2[1])}
          [] me.timescale = "UTC" ->
              UNION {LET c1 == Call("iauUtctai", "", <<me.jd1[1], me.jd2[1]>>, r1)
                         e1 == checksofacode("utctai", r1.code, dubiousok)
                     IN  IF e1 # NoErr THEN {Fail(h, e1, <<c1>>)}
                         ELSE {LET c2 == Call("iauTaitt", "", <<r1.out[1], r1.out[2]>>, r2)
                                   e2 == checksofacode("taitt", r2.code, dubiousok)
                               IN  IF e2 # NoErr THEN Fail(h, e2, <<c1, c2>>)
                                   ELSE Ok(new(r2.out), res, None, <<c1, c2>>)
                               : r2 \in iauTaitt(r1.out[1], r1.out[2])}
                     : r1 \in iauUtctai(me.jd1[1], me.jd2[1])}
          [] OTHER -> asTT_unsupported(h, s)

\* the TT result relabelled 'TDB'
asTDB_relabel(h, s, ttok) ==
    LET me == h[s]
    IN  IF me.timescale = "TDB"
        THEN {Ok(Append(h, Time(me.jd1, me.jd2, "TDB")), Len(h) + 1, None, << >>)}
        ELSE IF ~ttok
        THEN {Fail(h, UnsupportedTimescaleError(me.timescale), << >>)}
        ELSE {IF o.err # NoErr THEN o
              ELSE [o EXCEPT !.h[o.ref].timescale = "TDB"] : o \in asTT(h, s, FALSE)}

\* ttok tested before the timescale
asTDB_ttokfirst(h, s, ttok) ==
    LET me == h[s]
    IN  IF ~ttok
        THEN {Fail(h, UnsupportedTimescaleError(me.timescale), << >>)}
        ELSE IF me.timescale = "TDB"
        THEN {Ok(Append(h, Time(me.jd1, me.jd2, "TDB")), Len(h) + 1, None, << >>)}
        ELSE asTT(h, s, FALSE)

asTDB(h, s, ttok) ==
    LET me == h[s]
    IN  IF me.timescale = "TDB"
        THEN {Ok(Append(h, Time(me.jd1, me.jd2, "TDB")), Len(h) + 1, None, << >>)}
        ELSE IF ~ttok
        THEN {Fail(h, UnsupportedTimescaleError(me.timescale), << >>)}
        ELSE asTT(h, s, FALSE)

----------------------------------------------------------------------------
(* Ephemeris objects and the barycentric correction *)

\* C_AUDAY = 173.1446326846693 AU per day, in thousandths
C_AUDAY == 173145

\* the statuses of a NOVAS routine: 0 is success
NovasCodes == {0, 1, 2}

\* Earth's barycentric position and velocity in thousandths of an AU (per day)
EphemStates == {<<1000, 0, 0, 0, 17, 0>>, <<0, -600, 800, 14, 0, 0>>}

novas_object == {KRet(0, << >>)}

make_object(type, number) == {KRet(c, << >>) : c \in NovasCodes}

ephem_open == {KRet(c, << >>) : c \in NovasCodes}

ephemeris_tweak(jd1, jd2, number) == {KRet(c, pv) : c \in NovasCodes, pv \in EphemStates}

ephemnums ==
    [n \in {"mercury", "venus", "earth", "mars", "jupiter", "saturn", "uranus",
            "neptune", "pluto", "sun", "moon"} |->
        CASE n = "mercury" -> 1 [] n = "venus" -> 2 [] n = "earth" -> 3
          [] n = "mars" -> 4 [] n = "jupiter" -> 5 [] n = "saturn" -> 6
          [] n = "uranus" -> 7 [] n = "neptune" -> 8 [] n = "pluto" -> 9
          [] n = "sun" -> 10 [] n = "moon" -> 11]

\* an outcome of a constructor: the object, the exception, the kernel calls
Made(obj, cs) == [obj |-> obj, err |-> NoErr, calls |-> cs]

NotMade(e, cs) == [obj |-> [number |-> 0], err |-> e, calls |-> cs]

\* EphemObject (name), with CelestialObject.__init__ before the name check
EphemObject(name) ==
    UNION {LET c0 == Call("novas_object", "", << >>, r0)
           IN  IF name \notin DOMAIN ephemnums THEN {NotMade(ValueError, <<c0>>)}
               ELSE {LET c1 == Call("make_object", "", <<0, ephemnums[name]>>, r1)
                     IN  IF r1.code # 0
                         THEN NotMade(NovasError("make_object", r1.code), <<c0, c1>>)
                         ELSE Made([number |-> ephemnums[name]], <<c0, c1>>)
                     : r1 \in make_object(0, ephemnums[name])}
           : r0 \in novas_object}

\* the error raised without the status
open_ephem_codeless ==
    {[err |-> IF r.code # 0 THEN NovasError("ephem_open", 0) ELSE NoErr,
      calls |-> <<Call("ephem_open", "", << >>, r)>>] : r \in ephem_open}

\* the status of ephem_open left unread
open_ephem_unchecked ==
    {[err |-> NoErr, calls |-> <<Call("ephem_open", "", << >>, r)>>] : r \in ephem_open}

\* _open_ephem (): the exception it raises and the kernel call it makes
open_ephem ==
    {[err |-> IF r.code # 0 THEN NovasError("ephem_open", r.code) ELSE NoErr,
      calls |-> <<Call("ephem_open", "", << >>, r)>>] : r \in ephem_open}

\* EphemObject.ephem: raise NovasError ('ephemeris') lacks the code argument
\* of NovasError.__init__, so that raise is a TypeError
ephem(h, self, time, ttok) ==
    UNION {IF tdb.err # NoErr THEN {Fail(tdb.h, tdb.err, tdb.calls)}
           ELSE UNION {IF o.err # NoErr
                       THEN {Fail(tdb.h, o.err, tdb.calls \o o.calls)}
                       ELSE {LET c == Call("ephemeris_tweak", "",
                                           <<tdb.h[tdb.ref].jd1[1],
                                             tdb.h[tdb.ref].jd2[1], self.number>>, r)
                                 cs == tdb.calls \o o.calls \o <<c>>
                             IN  IF r.code # 0 THEN Fail(tdb.h, TypeError, cs)
                                 ELSE Ok(tdb.h, 0, r.out, cs)
                             : r \in ephemeris_tweak(tdb.h[tdb.ref].jd1[1],
                                                     tdb.h[tdb.ref].jd2[1],
                                                     self.number)}
                       : o \in open_ephem}
           : tdb \in asTDB(h, time, ttok)}

\* cos and sin of an angle given in quarter turns
cos(q) == CASE q % 4 = 0 -> 1 [] q % 4 = 2 -> -1 [] OTHER -> 0

sin(q) == CASE q % 4 = 1 -> 1 [] q % 4 = 3 -> -1 [] OTHER -> 0

\* a / b to the nearest integer
RoundDiv(a, b) == (2 * a + b) \div (2 * b)

\* the delay of the x component alone, whatever the direction
jdelta_xonly(pv, obj) == RoundDiv(pv[1] * DayUnits, C_AUDAY)

\* jdelta of asBJD, in model units of a day
jdelta(pv, obj) ==
    LET xhat == cos(obj.dec) * cos(obj.ra)
        yhat == cos(obj.dec) * sin(obj.ra)
        zhat == sin(obj.dec)
    IN  RoundDiv((pv[1] * xhat + pv[2] * yhat + pv[3] * zhat) * DayUnits, C_AUDAY)

asBJD(h, s, obj, ttok) ==
    UNION {IF earth.err # NoErr THEN {Fail(h, earth.err, earth.calls)}
           ELSE UNION {IF tdb.err # NoErr
                       THEN {Fail(tdb.h, tdb.err, earth.calls \o tdb.calls)}
                       ELSE {LET cs == earth.calls \o tdb.calls \o e.calls
                             IN  IF e.err # NoErr THEN Fail(e.h, e.err, cs)
                                 ELSE Ok([e.h EXCEPT ![tdb.ref].jd2 =
                                            Some(FAdd(@[1], jdelta(e.val, obj)))],
                                         tdb.ref, None, cs)
                             : e \in ephem(tdb.h, earth.obj, tdb.ref, ttok)}
                       : tdb \in asTDB(h, s, ttok)}
           : earth \in EphemObject("earth")}

----------------------------------------------------------------------------
(* Calendar output.  A str is the sequence of its characters. *)

iauJd2cal(jd1, jd2) ==
    {KRet(c, cal) : c \in SofaCodes, cal \in {<<2000, 1, 1, DayUnits \div 2>>}}

\* year, month, day, hour, minute, second and the fraction of a second as
\* an integer of ndp digits (0 when ndp < 1)
iauD2dtf_tweak(scale, ndp, d1, d2) ==
    {KRet(c, ymdhms \o <<f>>) :
        c \in SofaCodes,
        ymdhms \in {<<2000, 1, 1, 12, 0, 0>>, <<-4713, 11, 24, 9, 59, 60>>},
        f \in {g \in {0, 42} : g = 0 \/ (ndp >= 1 /\ g < 10 ^ ndp)}}

AttributeError ==
    [kind |-> "AttributeError", func |-> "", code |-> 0, timescale |-> ""]

DigitChar(d) == <<"0", "1", "2", "3", "4", "5", "6", "7", "8", "9">>[d + 1]

\* '%d' % n for n >= 0
RECURSIVE Decimal(_)
Decimal(n) ==
    IF n < 10 THEN <<DigitChar(n)>> ELSE Decimal(n \div 10) \o <<DigitChar(n % 10)>>

\* no padding at all
ZeroPad_none(str, width) == str

RECURSIVE ZeroPad(_, _)
ZeroPad(str, width) ==
    IF Len(str) >= width THEN str ELSE ZeroPad(<<"0">> \o str, width)

\* '%0*d' % (width, n); '%d' % n is the width 0
FormatD(n, width) ==
    IF n < 0 THEN <<"-">> \o ZeroPad(Decimal(0 - n), width - 1)
    ELSE ZeroPad(Decimal(n), width)

ascalendar(h, s) ==
    IF ~(IsNum(h[s].jd1) /\ IsNum(h[s].jd2)) THEN {Fail(h, TypeError, << >>)}
    ELSE {LET cs == <<Call("iauJd2cal", "", <<h[s].jd1[1], h[s].jd2[1]>>, r)>>
              e == checksofacode("jd2cal", r.code, FALSE)
          IN  IF e # NoErr THEN Fail(h, e, cs) ELSE Ok(h, 0, r.out, cs)
          : r \in iauJd2cal(h[s].jd1[1], h[s].jd2[1])}

fmtcalendar(h, s, precision, dubiousok) ==
    IF h[s].timescale = NoTimescale THEN {Fail(h, AttributeError, << >>)}
    ELSE {LET cs == <<Call("iauD2dtf_tweak", h[s].timescale,
                           <<precision, h[s].jd1[1], h[s].jd2[1]>>, info)>>
              e == checksofacode("d2dtf", info.code, dubiousok)
              ymdhmsf == info.out
              frac == IF precision < 1 THEN << >>
                      ELSE <<".">> \o FormatD(ymdhmsf[7], precision)
          IN  IF e # NoErr THEN Fail(h, e, cs)
              ELSE Ok(h, 0,
                      FormatD(ymdhmsf[1], 0) \o <<"/">> \o FormatD(ymdhmsf[2], 2)
                        \o <<"/">> \o FormatD(ymdhmsf[3], 2) \o <<" ">>
                        \o FormatD(ymdhmsf[4], 2) \o <<":">> \o FormatD(ymdhmsf[5], 2)
                        \o <<":">> \o FormatD(ymdhmsf[6], 2) \o frac,
                      cs)
          : info \in iauD2dtf_tweak(h[s].timescale, precision, h[s].jd1[1], h[s].jd2[1])}

----------------------------------------------------------------------------
(* Celestial objects and their positions.  Angles are integers: hours in
   thousandths, degrees in hundredths, radians in ten-thousandths. *)

\* pi / 12, 12 / pi, pi / 180 and 180 / pi as factors between these units
H2R(hours) == RoundDiv(hours * 2618, 1000)

R2H(rad) == RoundDiv(rad * 1000, 2618)

D2R(deg) == RoundDiv(deg * 17453, 10000)

R2D(rad) == RoundDiv(rad * 10000, 17453)

\* int (flag)
int(flag) == IF flag THEN 1 ELSE 0

\* (ra, dec) in hours and degrees, as a place routine gives them
EquatorialPlaces == {<<6000, 4500>>, <<18500, -2000>>}

\* (zd, az, rar, decr) in degrees, degrees, hours and degrees
HorizonPlaces == {<<3000, 18000, 6001, 4501>>, <<9500, 27000, 18501, -1999>>}

make_cat_entry == {KRet(c, << >>) : c \in NovasCodes}

astro_star(jd_tt, star, accuracy) ==
    {KRet(c, p) : c \in NovasCodes, p \in EquatorialPlaces}

topo_star(jd_tt, deltat, star, on_surf, accuracy) ==
    {KRet(c, p) : c \in NovasCodes, p \in EquatorialPlaces}

\* the planet routines give the distance in thousandths of an AU as well
astro_planet(jd_tt, number, accuracy) ==
    {KRet(c, p \o <<1500>>) : c \in NovasCodes, p \in EquatorialPlaces}

topo_planet(jd_tt, number, deltat, on_surf, accuracy) ==
    {KRet(c, p \o <<1500>>) : c \in NovasCodes, p \in EquatorialPlaces}

\* equ2hor returns no status
equ2hor(ut1, deltat, accuracy, xp, yp, on_surf, ra, dec, ref_option) ==
    {KRet(0, p) : p \in HorizonPlaces}

\* SiderealObject (ra, dec) with ra and dec in radians: star holds hours
\* and degrees
SiderealObject(ra, dec) ==
    UNION {LET c0 == Call("novas_object", "", << >>, r0)
           IN  UNION {LET c1 == Call("make_cat_entry", "", << >>, r1)
                      IN  IF r1.code # 0
                          THEN {NotMade(NovasError("make_cat_entry", r1.code),
                                        <<c0, c1>>)}
                          ELSE {LET c2 == Call("make_object", "", <<2, 0>>, r2)
                                IN  IF r2.code # 0
                                    THEN NotMade(NovasError("make_object", r2.code),
                                                 <<c0, c1, c2>>)
                                    ELSE Made([star |-> [ra |-> R2H(ra),
                                                         dec |-> R2D(dec)]],
                                              <<c0, c1, c2>>)
                                : r2 \in make_object(2, 0)}
                      : r1 \in make_cat_entry}
           : r0 \in novas_object}

\* isinstance (earthobs, Observer)
IsObserver(earthobs) == earthobs.class \in {"EarthObserver", "Observer"}

\* isinstance (earthobs, EarthObserver)
IsEarthObserver(earthobs) == earthobs.class = "EarthObserver"

\* the argument jd_tt of astropos and topopos: a Time of the heap or a float
TimeArg(s) == [isTime |-> TRUE, ref |-> s, jd |-> 0]

FloatArg(jd) == [isTime |-> FALSE, ref |-> 0, jd |-> jd]

\* if isinstance (jd_tt, Time): jd_tt = jd_tt.asTT ().asJD ()
jd_tt_of(h, jd_tt) ==
    IF jd_tt.isTime
    THEN {IF t.err # NoErr THEN Fail(t.h, t.err, t.calls)
          ELSE Ok(t.h, 0, asJD(t.h, t.ref).val, t.calls)
          : t \in asTT(h, jd_tt.ref, FALSE)}
    ELSE {Ok(h, 0, Some(jd_tt.jd), << >>)}

SiderealObject_astropos(h, self, jd_tt, lowaccuracy) ==
    UNION {IF t.err # NoErr THEN {t}
           ELSE UNION {IF o.err # NoErr THEN {Fail(t.h, o.err, t.calls \o o.calls)}
                       ELSE {LET c == Call("astro_star", "",
                                           <<t.val[1], self.star.ra, self.star.dec,
                                             int(lowaccuracy)>>, r)
                                 cs == t.calls \o o.calls \o <<c>>
                             IN  IF r.code # 0
                                 THEN Fail(t.h, NovasError("astro_star", r.code), cs)
                                 ELSE Ok(t.h, 0, <<H2R(r.out[1]), D2R(r.out[2])>>, cs)
                             : r \in astro_star(t.val[1], self.star, int(lowaccuracy))}
                       : o \in open_ephem}
           : t \in jd_tt_of(h, jd_tt)}

SiderealObject_topopos(h, self, jd_tt, earthobs, deltat, lowaccuracy) ==
    IF ~IsEarthObserver(earthobs) THEN {Fail(h, ValueError, << >>)}
    ELSE
    UNION {IF t.err # NoErr THEN {t}
           ELSE UNION {IF o.err # NoErr THEN {Fail(t.h, o.err, t.calls \o o.calls)}
                       ELSE {LET c == Call("topo_star", "",
                                           <<t.val[1], deltat, self.star.ra,
                                             self.star.dec, earthobs.on_surf,
                                             int(lowaccuracy)>>, r)
                                 cs == t.calls \o o.calls \o <<c>>
                             IN  IF r.code # 0
                                 THEN Fail(t.h, NovasError("topo_star", r.code), cs)
                                 ELSE Ok(t.h, 0, <<H2R(r.out[1]), D2R(r.out[2])>>, cs)
                             : r \in topo_star(t.val[1], deltat, self.star,
                                               earthobs.on_surf, int(lowaccuracy))}
                       : o \in open_ephem}
           : t \in jd_tt_of(h, jd_tt)}

\* the distance astro_planet gives is ignored
EphemObject_astropos(h, self, jd_tt, lowaccuracy) ==
    UNION {IF t.err # NoErr THEN {t}
           ELSE UNION {IF o.err # NoErr THEN {Fail(t.h, o.err, t.calls \o o.calls)}
                       ELSE {LET c == Call("astro_planet", "",
                                           <<t.val[1], self.number,
                                             int(lowaccuracy)>>, r)
                                 cs == t.calls \o o.calls \o <<c>>
                             IN  IF r.code # 0
                                 THEN Fail(t.h, NovasError("astro_planet", r.code), cs)
                                 ELSE Ok(t.h, 0, <<H2R(r.out[1]), D2R(r.out[2])>>, cs)
                             : r \in astro_planet(t.val[1], self.number,
                                                  int(lowaccuracy))}
                       : o \in open_ephem}
           : t \in jd_tt_of(h, jd_tt)}

EphemObject_topopos(h, self, jd_tt, earthobs, deltat, lowaccuracy) ==
    IF ~IsEarthObserver(earthobs) THEN {Fail(h, ValueError, << >>)}
    ELSE
    UNION {IF t.err # NoErr THEN {t}
           ELSE UNION {IF o.err # NoErr THEN {Fail(t.h, o.err, t.calls \o o.calls)}
                       ELSE {LET c == Call("topo_planet", "",
                                           <<t.val[1], self.number, deltat,
                                             earthobs.on_surf, int(lowaccuracy)>>, r)
                                 cs == t.calls \o o.calls \o <<c>>
                             IN  IF r.code # 0
                                 THEN Fail(t.h, NovasError("topo_planet", r.code), cs)
                                 ELSE Ok(t.h, 0, <<H2R(r.out[1]), D2R(r.out[2])>>, cs)
                             : r \in topo_planet(t.val[1], self.number, deltat,
                                                 earthobs.on_surf, int(lowaccuracy))}
                       : o \in open_ephem}
           : t \in jd_tt_of(h, jd_tt)}

\* self.topopos: the method of the object's class
topopos(h, self, jd_tt, earthobs, deltat, lowaccuracy) ==
    IF "star" \in DOMAIN self
    THEN SiderealObject_topopos(h, self, jd_tt, earthobs, deltat, lowaccuracy)
    ELSE EphemObject_topopos(h, self, jd_tt, earthobs, deltat, lowaccuracy)

\* the TT Julian Date itself, deltat not subtracted
ut1_of_tt(t, deltat) == asJD(t.h, t.ref).val[1]

\* ut1 = time.asTT ().asJD () - deltat, for the outcome t of time.asTT ()
ut1_of(t, deltat) == FSub(asJD(t.h, t.ref).val[1], deltat)

\* CelestialObject.horizonpos with xp = yp = 0; a time that is no Time has
\* no asTT
horizonpos(h, self, time, earthobs, lowaccuracy, deltat, refract) ==
    IF ~IsEarthObserver(earthobs) THEN {Fail(h, ValueError, << >>)}
    ELSE
    UNION {IF o.err # NoErr THEN {Fail(h, o.err, o.calls)}
           ELSE UNION {
               IF p.err # NoErr THEN {Fail(p.h, p.err, o.calls \o p.calls)}
               ELSE IF ~time.isTime
               THEN {Fail(p.h, AttributeError, o.calls \o p.calls)}
               ELSE UNION {
                   IF t.err # NoErr
                   THEN {Fail(t.h, t.err, o.calls \o p.calls \o t.calls)}
                   ELSE {LET ra == R2H(p.val[1])
                             dec == R2D(p.val[2])
                             ut1 == ut1_of(t, deltat)
                             c == Call("equ2hor", "",
                                       <<ut1, deltat, int(lowaccuracy), 0, 0,
                                         earthobs.on_surf, ra, dec, int(refract)>>, r)
                             zd == r.out[1]
                             az == r.out[2]
                         IN  Ok(t.h, 0, <<D2R(az), D2R(90 * 100 - zd)>>,
                                o.calls \o p.calls \o t.calls \o <<c>>)
                         : r \in equ2hor(ut1_of(t, deltat), deltat, int(lowaccuracy),
                                         0, 0, earthobs.on_surf, R2H(p.val[1]),
                                         R2D(p.val[2]), int(refract))}
                   : t \in asTT(p.h, time.ref, FALSE)}
               : p \in topopos(h, self, time, earthobs, deltat, lowaccuracy)}
           : o \in open_ephem}

----------------------------------------------------------------------------
(* Inputs *)

\* names given as a timescale: the recognized ones and one that is not
TimescaleNames == {"TAI", "UTC", "UT1", "TT", "TCG", "TCB", "TDB", "GPS"}

\* float arguments: every one is a value a float can hold
Floats == {RoundF(v) : v \in {DayUnits \div 4, 2000000 * DayUnits + 65, J2000}}

\* day fractions given to fromfdcal
DayFractions == {DayUnits \div 2}

\* calendar dates: year, month, day, hour, minute, second
Calendars == {<<2000, 1, 1, 12, 0, 0>>}

\* POSIX times, in seconds
PosixTimes == {0, 43200}

JulianEpochs == {2000}

\* precisions given to fmtcalendar
Precisions == {-1, 0, 1, 3}

\* sky directions (ra, dec) in quarter turns
Directions == {[ra |-> 0, dec |-> 0], [ra |-> 3, dec |-> 0], [ra |-> 0, dec |-> 1]}

\* names given to EphemObject: the eleven bodies and one that is none
ObjectNames ==
    {"mercury", "venus", "earth", "mars", "jupiter", "saturn", "uranus",
     "neptune", "pluto", "sun", "moon", "ceres"}

\* (ra, dec) in radians given to SiderealObject (pi / 2, pi / 4) and
\* (3 pi / 2, - pi / 6)
StarDirections == {<<15708, 7854>>, <<47124, -5236>>}

\* the objects whose positions are asked for, as their constructors make them
Planets == {[number |-> 3], [number |-> 11]}

Stars == {[star |-> [ra |-> R2H(15708), dec |-> R2D(7854)]]}

\* the earthobs arguments: an EarthObserver and an Observer that is not one
Observers ==
    {[class |-> "EarthObserver", on_surf |-> 0], [class |-> "Observer", on_surf |-> 0]}

\* deltat, lowaccuracy and refract as position calls give them
PositionOptions ==
    {[deltat |-> 0, lowaccuracy |-> FALSE, refract |-> FALSE],
     [deltat |-> 69 * DayUnits, lowaccuracy |-> TRUE, refract |-> TRUE]}

\* the Times and floats given as the time of a position
PositionTimescales == {"TT", "TAI", "UT1"}

PositionJDs == {RoundF(J2000)}

----------------------------------------------------------------------------
(* The state machine: one action per operation on the Time heap[1] *)

Operation(name, timescale, x, dubiousok, ttok) ==
    [name |-> name, timescale |-> timescale, x |-> x,
     dubiousok |-> dubiousok, ttok |-> ttok]

\* an operation whose arguments are a record
OperationOn(name, args, ttok) ==
    [name |-> name, timescale |-> "", x |-> 0, dubiousok |-> FALSE, ttok |-> ttok,
     args |-> args]

\* the objects the caller still holds after an operation: the Time itself
\* and the object the operation returned
Collect(o) == IF o.ref > 1 THEN <<o.h[1], o.h[o.ref]>> ELSE <<o.h[1]>>

Commit(operation, o) ==
    /\ heap' = Collect(o)
    /\ op' = operation
    /\ ret' = [ref |-> IF o.ref > 1 THEN 2 ELSE o.ref, val |-> o.val]
    /\ err' = o.err
    /\ calls' = o.calls

\* the Time alone: what an earlier operation returned is dropped
self == <<heap[1]>>

Init ==
    /\ heap = <<NewTime>>
    /\ op = Operation("Time", "", 0, FALSE, FALSE)
    /\ ret = [ref |-> 1, val |-> None]
    /\ err = NoErr
    /\ calls = << >>

FromNow ==
    \E clock \in PosixTimes : \E o \in fromnow(self, 1, clock) :
        Commit(Operation("fromnow", "", 0, FALSE, FALSE), o)

FromPOSIX ==
    \E time \in PosixTimes : \E o \in fromPOSIX(self, 1, time) :
        Commit(Operation("fromPOSIX", "", time, FALSE, FALSE), o)

FromJD ==
    \E jd \in Floats, timescale \in TimescaleNames :
        \E o \in fromJD(self, 1, jd, timescale) :
            Commit(Operation("fromJD", timescale, jd, FALSE, FALSE), o)

FromMJD ==
    \E mjd \in Floats, timescale \in TimescaleNames :
        \E o \in fromMJD(self, 1, mjd, timescale) :
            Commit(Operation("fromMJD", timescale, mjd, FALSE, FALSE), o)

FromCalendar ==
    \E cal \in Calendars, timescale \in TimescaleNames, dubiousok \in BOOLEAN :
        \E o \in fromcalendar(self, 1, cal, timescale, dubiousok) :
            Commit(Operation("fromcalendar", timescale, 0, dubiousok, FALSE), o)

FromFdcal ==
    \E cal \in Calendars, fday \in DayFractions,
       timescale \in TimescaleNames, dubiousok \in BOOLEAN :
        \E o \in fromfdcal(self, 1, SubSeq(cal, 1, 3), fday, timescale, dubiousok) :
            Commit(Operation("fromfdcal", timescale, fday, dubiousok, FALSE), o)

FromJepoch ==
    \E epj \in JulianEpochs : \E o \in fromjepoch(self, 1, epj) :
        Commit(Operation("fromjepoch", "", epj, FALSE, FALSE), o)

AsJD == Commit(Operation("asJD", "", 0, FALSE, FALSE), asJD(self, 1))

AsMJD == Commit(Operation("asMJD", "", 0, FALSE, FALSE), asMJD(self, 1))

AsTT ==
    \E dubiousok \in BOOLEAN : \E o \in asTT(self, 1, dubiousok) :
        Commit(Operation("asTT", "", 0, dubiousok, FALSE), o)

AsTDB ==
    \E ttok \in BOOLEAN : \E o \in asTDB(self, 1, ttok) :
        Commit(Operation("asTDB", "", 0, FALSE, ttok), o)

AsBJD ==
    \E obj \in Directions, ttok \in BOOLEAN : \E o \in asBJD(self, 1, obj, ttok) :
        Commit(OperationOn("asBJD", obj, ttok), o)

AsCalendar ==
    \E o \in ascalendar(self, 1) :
        Commit(Operation("ascalendar", "", 0, FALSE, FALSE), o)

FmtCalendar ==
    \E precision \in Precisions, dubiousok \in BOOLEAN :
        \E o \in fmtcalendar(self, 1, precision, dubiousok) :
            Commit(Operation("fmtcalendar", "", precision, dubiousok, FALSE), o)

Next ==
    \/ FromNow
    \/ FromPOSIX
    \/ FromJD
    \/ FromMJD
    \/ FromCalendar
    \/ FromFdcal
    \/ FromJepoch
    \/ AsJD
    \/ AsMJD
    \/ AsTT
    \/ AsTDB
    \/ AsBJD
    \/ AsCalendar
    \/ FmtCalendar

Spec == Init /\ [][Next]_vars

----------------------------------------------------------------------------
(* The state machine of positions: heap[1] is the Time given to them *)

\* the arguments of a position call
Arguments(obj, jd_tt, earthobs, options) ==
    [self |-> obj, jd_tt |-> jd_tt, earthobs |-> earthobs,
     deltat |-> options.deltat, lowaccuracy |-> options.lowaccuracy,
     refract |-> options.refract]

NoObserver == [class |-> "None", on_surf |-> 0]

\* the outcome of a constructor as the outcome of an operation
Constructed(h, c) ==
    [h |-> h, ref |-> 0, val |-> IF c.err = NoErr THEN <<c.obj>> ELSE None,
     err |-> c.err, calls |-> c.calls]

\* the time of a position: heap[1] or a float
TimeArgs == {TimeArg(1)} \cup {FloatArg(jd) : jd \in PositionJDs}

GivenTime ==
    \E jd \in PositionJDs, timescale \in PositionTimescales :
        \E o \in fromJD(self, 1, jd, timescale) :
            Commit(Operation("fromJD", timescale, jd, FALSE, FALSE), o)

NewEphemObject ==
    \E name \in ObjectNames : \E c \in EphemObject(name) :
        Commit(OperationOn("EphemObject", [name |-> name], FALSE), Constructed(self, c))

NewSiderealObject ==
    \E d \in StarDirections : \E c \in SiderealObject(d[1], d[2]) :
        Commit(OperationOn("SiderealObject", [ra |-> d[1], dec |-> d[2]], FALSE),
               Constructed(self, c))

SiderealAstropos ==
    \E obj \in Stars, jd_tt \in TimeArgs, options \in PositionOptions :
        \E o \in SiderealObject_astropos(self, obj, jd_tt, options.lowaccuracy) :
            Commit(OperationOn("astropos", Arguments(obj, jd_tt, NoObserver, options), FALSE), o)

SiderealTopopos ==
    \E obj \in Stars, jd_tt \in TimeArgs, earthobs \in Observers,
       options \in PositionOptions :
        \E o \in SiderealObject_topopos(self, obj, jd_tt, earthobs, options.deltat,
                                        options.lowaccuracy) :
            Commit(OperationOn("topopos", Arguments(obj, jd_tt, earthobs, options), FALSE), o)

EphemAstropos ==
    \E obj \in Planets, jd_tt \in TimeArgs, options \in PositionOptions :
        \E o \in EphemObject_astropos(self, obj, jd_tt, options.lowaccuracy) :
            Commit(OperationOn("astropos", Arguments(obj, jd_tt, NoObserver, options), FALSE), o)

EphemTopopos ==
    \E obj \in Planets, jd_tt \in TimeArgs, earthobs \in Observers,
       options \in PositionOptions :
        \E o \in EphemObject_topopos(self, obj, jd_tt, earthobs, options.deltat,
                                     options.lowaccuracy) :
            Commit(OperationOn("topopos", Arguments(obj, jd_tt, earthobs, options), FALSE), o)

Horizonpos ==
    \E obj \in Stars \cup Planets, time \in TimeArgs, earthobs \in Observers,
       options \in PositionOptions :
        \E o \in horizonpos(self, obj, time, earthobs, options.lowaccuracy,
                            options.deltat, options.refract) :
            Commit(OperationOn("horizonpos", Arguments(obj, time, earthobs, options), FALSE), o)

Ephem ==
    \E obj \in Planets, ttok \in BOOLEAN : \E o \in ephem(self, obj, 1, ttok) :
        Commit(OperationOn("ephem", [self |-> obj], ttok), o)

NextPos ==
    \/ GivenTime
    \/ NewEphemObject
    \/ NewSiderealObject
    \/ SiderealAstropos
    \/ SiderealTopopos
    \/ EphemAstropos
    \/ EphemTopopos
    \/ Horizonpos
    \/ Ephem

SpecPos == Init /\ [][NextPos]_vars

----------------------------------------------------------------------------
(* Properties *)

\* the seven timescale names, written out
RecognizedNames == {"TAI", "UTC", "UT1", "TT", "TCG", "TCB", "TDB"}

ValidatingFactories == {"fromJD", "fromMJD", "fromcalendar", "fromfdcal"}

Factories == ValidatingFactories \cup {"fromnow", "fromPOSIX", "fromjepoch"}

Conversions == {"asTT", "asTDB", "asBJD"}

LastCall == calls[Len(calls)]

\* C1: in fromcalendar, fromfdcal, asTT and fmtcalendar the status of a
\* kernel call is judged by the dubious-year rule: status 1 with dubiousok=True is accepted
\* (so an operation all of whose calls returned 0 or 1 succeeds), status 1
\* with dubiousok=False raises a SofaError, and any other nonzero status
\* raises a SofaError whatever dubiousok is.
C1_DubiousYearRule ==
    (op.name \in {"fromcalendar", "fromfdcal", "asTT", "fmtcalendar"}
        /\ calls # << >>) =>
        /\ (op.dubiousok /\ \A i \in DOMAIN calls : calls[i].code \in {0, 1})
              => err = NoErr
        /\ (~op.dubiousok /\ LastCall.code = 1)
              => (err.kind = "SofaError" /\ err.code = 1)
        /\ LastCall.code \notin {0, 1}
              => (err.kind = "SofaError" /\ err.code = LastCall.code)

\* C2: the timescale check passes exactly the seven recognized names, and a
\* factory taking a timescale (fromJD, fromMJD, fromcalendar, fromfdcal)
\* given any other name raises the invalid-timescale error before anything
\* else: no kernel call is made and the Time is left as it was; given a
\* recognized name it never raises that error.
C2_TimescaleValidation ==
    [][/\ \A n \in TimescaleNames :
              (checktimescale(n) = NoErr) <=> (n \in RecognizedNames)
       /\ op'.name \in ValidatingFactories =>
              IF op'.timescale \in RecognizedNames
              THEN err'.kind # "ValueError"
              ELSE /\ err'.kind = "ValueError"
                   /\ calls' = << >>
                   /\ heap' = <<heap[1]>>]_vars

C2_Witness ==
    /\ op.name = "fromcalendar"
    /\ op.timescale \notin RecognizedNames
    /\ err.kind = "ValueError"
    /\ heap[1].timescale = "UTC"

\* C3: asTT on a Time tagged UT1, TCG, TCB or TDB raises
\* UnsupportedTimescaleError carrying that timescale, returns nothing and
\* makes no kernel call.
C3_AsTTUnsupported ==
    [][(op'.name = "asTT" /\ heap[1].timescale \in {"UT1", "TCG", "TCB", "TDB"}) =>
          /\ err'.kind = "UnsupportedTimescaleError"
          /\ err'.timescale = heap[1].timescale
          /\ ret'.ref = 0
          /\ calls' = << >>]_vars

C3_Witness ==
    /\ op.name = "asTT"
    /\ heap[1].timescale = "UT1"
    /\ err.kind = "UnsupportedTimescaleError"
    /\ err.timescale = "UT1"

\* C4: a Time that asTDB(ttok=True) returns for a source tagged TT, TAI or
\* UTC is tagged 'TT'; a Time that asTDB returns is tagged 'TDB' only when
\* the source was tagged 'TDB'.
C4_AsTDBKeepsTTTag ==
    [][(op'.name = "asTDB" /\ ret'.ref # 0) =>
          /\ (op'.ttok /\ heap[1].timescale \in {"TT", "TAI", "UTC"})
                => heap'[ret'.ref].timescale = "TT"
          /\ heap'[ret'.ref].timescale = "TDB" => heap[1].timescale = "TDB"]_vars

C4_Witness ==
    /\ op.name = "asTDB"
    /\ op.ttok
    /\ heap[1].timescale = "UTC"
    /\ ret.ref = 2
    /\ heap[2].timescale = "TT"
    /\ Len(calls) = 2

\* C5: asTDB(ttok=False) on a Time not tagged TDB raises
\* UnsupportedTimescaleError, returns nothing and makes no kernel call; asTDB
\* on a Time tagged TDB returns, for either ttok, a Time with the same jd1
\* and jd2 tagged 'TDB'.
C5_AsTDBWithoutOptIn ==
    [][op'.name = "asTDB" =>
          IF heap[1].timescale = "TDB"
          THEN /\ err' = NoErr
               /\ ret'.ref # 0
               /\ heap'[ret'.ref] =
                     [jd1 |-> heap[1].jd1, jd2 |-> heap[1].jd2, timescale |-> "TDB"]
          ELSE ~op'.ttok =>
                  /\ err'.kind = "UnsupportedTimescaleError"
                  /\ ret'.ref = 0
                  /\ calls' = << >>]_vars

C5_Witness ==
    /\ op.name = "asTDB"
    /\ ~op.ttok
    /\ heap[1].timescale = "TT"
    /\ err.kind = "UnsupportedTimescaleError"

\* C6: asTT on a Time tagged TT returns, for either dubiousok, a Time with
\* the same jd1, the same jd2 and timescale 'TT', and makes no kernel call.
C6_AsTTIdentity ==
    [][(op'.name = "asTT" /\ heap[1].timescale = "TT") =>
          /\ err' = NoErr
          /\ ret'.ref # 0
          /\ heap'[ret'.ref] =
                [jd1 |-> heap[1].jd1, jd2 |-> heap[1].jd2, timescale |-> "TT"]
          /\ calls' = << >>]_vars

C6_Witness ==
    /\ op.name = "asTT"
    /\ op.dubiousok
    /\ heap[1].timescale = "TT"
    /\ heap[1].jd1 # heap[1].jd2
    /\ ret.ref = 2
    /\ heap[2] = heap[1]

\* C7: asTT, asTDB and asBJD leave the jd1, jd2 and timescale of the Time
\* they are called on as they were, whether they succeed or fail, and the
\* Time they return is another object than the source (so the increment
\* asBJD applies to its result does not reach the source).
C7_ConversionsDoNotMutate ==
    [][op'.name \in Conversions =>
          /\ heap'[1] = heap[1]
          /\ err' = NoErr => ret'.ref \notin {0, 1}]_vars

C7_Witness ==
    /\ op.name = "asBJD"
    /\ err = NoErr
    /\ heap[1].timescale = "TT"
    /\ ret.ref = 2
    /\ heap[2].jd1 = heap[1].jd1
    /\ heap[2].jd2 # heap[1].jd2

\* C8 as stated: the timescale of every Time, from its construction on, is
\* one of the seven recognized names.
C8_TimescaleAlwaysRecognized ==
    \A i \in DOMAIN heap : heap[i].timescale \in RecognizedNames

\* C8 amended: the timescale of a Time is None from its construction until
\* a factory operation on it succeeds and one of the seven recognized names
\* from then on, whatever operations follow; a Time returned by a
\* conversion is tagged with one of the seven names.
C8_TimescaleRecognizedOnceSet ==
    [][/\ heap'[1].timescale \in RecognizedNames \cup {NoTimescale}
       /\ heap[1].timescale \in RecognizedNames
             => heap'[1].timescale \in RecognizedNames
       /\ (op'.name \in Factories /\ err' = NoErr)
             => heap'[1].timescale \in RecognizedNames
       /\ (op'.name \in Conversions /\ ret'.ref # 0)
             => heap'[ret'.ref].timescale \in RecognizedNames]_vars

C8_Witness ==
    /\ op.name = "fromcalendar"
    /\ err.kind = "SofaError"
    /\ heap[1].timescale = NoTimescale
    /\ heap[1].jd1 # None

\* C9: for every float x and every recognized timescale, fromJD(x,
\* timescale) succeeds and stores jd1 = x, jd2 = 0 and the timescale, and
\* asJD() on the result returns exactly x.
C9_FromJDRoundTrip ==
    op.name = "fromJD" =>
        /\ op.timescale \in RecognizedNames => err = NoErr
        /\ err = NoErr =>
              /\ heap[1] = [jd1 |-> <<op.x>>, jd2 |-> <<0>>,
                            timescale |-> op.timescale]
              /\ asJD(heap, 1).err = NoErr
              /\ asJD(heap, 1).val = <<op.x>>

C9_Witness ==
    /\ op.name = "fromJD"
    /\ err = NoErr
    /\ op.timescale = "TCB"
    /\ op.x = 2451545 * 256
    /\ heap[1].jd1 = <<op.x>>

\* 2400000.5 days, written independently of the model's constant
MJDEpoch == 2400000 * 256 + 128

\* C10: for every float m and every recognized timescale, fromMJD(m,
\* timescale) succeeds and stores jd1 = 2400000.5 and jd2 = m, asMJD() on
\* the result returns m, and asJD() returns the float sum m + 2400000.5.
C10_FromMJDRoundTrip ==
    op.name = "fromMJD" =>
        /\ op.timescale \in RecognizedNames => err = NoErr
        /\ err = NoErr =>
              /\ heap[1] = [jd1 |-> <<MJDEpoch>>, jd2 |-> <<op.x>>,
                            timescale |-> op.timescale]
              /\ asMJD(heap, 1).val = <<op.x>>
              /\ asJD(heap, 1).val = <<FAdd(op.x, MJDEpoch)>>

\* fromMJD of a value whose sum with 2400000.5 no float holds exactly
C10_Witness ==
    /\ op.name = "fromMJD"
    /\ err = NoErr
    /\ heap[1].jd2 = <<op.x>>
    /\ asJD(heap, 1).val # <<op.x + MJDEpoch>>

\* the unit vector of a direction of Directions, written out
UnitVector(obj) ==
    CASE obj = [ra |-> 0, dec |-> 0] -> <<1, 0, 0>>
      [] obj = [ra |-> 3, dec |-> 0] -> <<0, -1, 0>>
      [] obj = [ra |-> 0, dec |-> 1] -> <<0, 0, 1>>

\* Earth's position (the output of the last kernel call of asBJD) dotted
\* with the direction and divided by C_AUDAY, in model units of a day
LightTravelDelay ==
    LET u == UnitVector(op.args)
        pv == LastCall.out
    IN  RoundDiv((pv[1] * u[1] + pv[2] * u[2] + pv[3] * u[3]) * DayUnits, C_AUDAY)

\* C11: the Time that asBJD returns has the jd1 and the timescale of the
\* Time that asTDB(ttok) gives for the source (with the same kernel
\* answers), and its jd2 is that Time's jd2 plus the light-travel delay:
\* Earth's barycentric position dotted with the object's unit direction,
\* divided by C_AUDAY.
C11_AsBJDShiftsJd2 ==
    (op.name = "asBJD" /\ err = NoErr) =>
        /\ ret.ref = 2
        /\ LastCall.fn = "ephemeris_tweak"
        /\ \E t \in asTDB(self, 1, op.ttok) :
              /\ t.err = NoErr
              /\ t.calls = SubSeq(calls, 3, Len(calls) - 2)
              /\ heap[2].jd1 = t.h[t.ref].jd1
              /\ heap[2].timescale = t.h[t.ref].timescale
              /\ heap[2].jd2 = Some(FAdd(t.h[t.ref].jd2[1], LightTravelDelay))
        /\ \A t \in asTDB(self, 1, op.ttok) :
              (t.err = NoErr /\ t.calls = SubSeq(calls, 3, Len(calls) - 2)) =>
                  /\ heap[2].jd1 = t.h[t.ref].jd1
                  /\ heap[2].timescale = t.h[t.ref].timescale
                  /\ heap[2].jd2 = Some(FAdd(t.h[t.ref].jd2[1], LightTravelDelay))

\* asBJD of a UTC Time towards -y with Earth at y = -0.6 AU: a delay that
\* is not zero
C11_Witness ==
    /\ op.name = "asBJD"
    /\ err = NoErr
    /\ heap[1].timescale = "UTC"
    /\ op.args = [ra |-> 3, dec |-> 0]
    /\ LightTravelDelay = 1
    /\ heap[2].timescale = "TT"
    /\ Len(calls) = 6

PositionOperations == {"astropos", "topopos", "horizonpos", "ephem"}

PositionRoutines ==
    {"astro_star", "astro_planet", "topo_star", "topo_planet", "ephemeris_tweak",
     "equ2hor"}

\* the ephem_open calls of the log that returned status 0
OpenedAt == {j \in DOMAIN calls : calls[j].fn = "ephem_open" /\ calls[j].code = 0}

\* C12: in every position operation (astropos, topopos, horizonpos of
\* either kind of object, and EphemObject.ephem) a call of ephem_open that
\* returned status 0 comes before every call of astro_star, astro_planet,
\* topo_star, topo_planet, ephemeris_tweak and equ2hor.
C12_OpenBeforePosition ==
    op.name \in PositionOperations =>
        \A i \in DOMAIN calls :
            calls[i].fn \in PositionRoutines => \E j \in OpenedAt : j < i

\* a horizon place of a star at a TAI Time: asTT, the open, topo_star,
\* asTT again and equ2hor
C12_Witness ==
    /\ op.name = "horizonpos"
    /\ "star" \in DOMAIN op.args.self
    /\ heap[1].timescale = "TAI"
    /\ err = NoErr
    /\ LastCall.fn = "equ2hor"
    /\ \E i \in DOMAIN calls : calls[i].fn = "topo_star"
    /\ OpenedAt # {}

\* C13: opening the ephemeris is done once: over any sequence of position
\* operations, a call of ephem_open is never made after a call of ephem_open
\* has returned status 0, be it in an earlier operation or earlier in the
\* same one (horizonpos and the topopos it calls).
C13_OpenOnlyOnce ==
    [][op'.name \in PositionOperations =>
          \A j \in DOMAIN calls' :
              calls'[j].fn = "ephem_open" =>
                  /\ op.name \in PositionOperations => OpenedAt = {}
                  /\ ~\E i \in 1..(j - 1) :
                        calls'[i].fn = "ephem_open" /\ calls'[i].code = 0]_vars

\* C14: when ephem_open returns a nonzero status, the position operation
\* that called it fails with a NovasError naming 'ephem_open' and carrying
\* that status, it returns nothing, and none of astro_star, astro_planet,
\* topo_star, topo_planet, ephemeris_tweak and equ2hor is called in it.
C14_OpenFailureIsFatal ==
    op.name \in PositionOperations =>
        \A i \in DOMAIN calls :
            (calls[i].fn = "ephem_open" /\ calls[i].code # 0) =>
                /\ err.kind = "NovasError"
                /\ err.func = "ephem_open"
                /\ err.code = calls[i].code
                /\ ret.val = None
                /\ \A k \in DOMAIN calls : calls[k].fn \notin PositionRoutines

\* the second open of a horizonpos, the one of its topopos, returns 2
C14_Witness ==
    /\ op.name = "horizonpos"
    /\ heap[1].timescale = "TAI"
    /\ op.args.jd_tt.isTime
    /\ OpenedAt = {1}
    /\ LastCall.fn = "ephem_open"
    /\ LastCall.code = 2
    /\ err = [kind |-> "NovasError", func |-> "ephem_open", code |-> 2,
              timescale |-> ""]

\* C15: horizonpos and topopos, of either kind of object, given an observer
\* that is not an EarthObserver raise the invalid-argument error
\* (ValueError) and return nothing before any kernel call: no timescale
\* conversion, no ephem_open, no position or horizon routine.
C15_ObserverChecked ==
    (op.name \in {"topopos", "horizonpos"}
        /\ op.args.earthobs.class # "EarthObserver") =>
        /\ err = ValueError
        /\ ret.val = None
        /\ calls = << >>

\* a planet's horizonpos at a TAI Time (whose conversion would call the
\* kernel) with an Observer
C15_Witness ==
    /\ op.name = "horizonpos"
    /\ "number" \in DOMAIN op.args.self
    /\ op.args.earthobs.class = "Observer"
    /\ op.args.jd_tt.isTime
    /\ heap[1].timescale = "TAI"
    /\ err.kind = "ValueError"

\* the same for the topopos of a star
C15_WitnessTopopos ==
    /\ op.name = "topopos"
    /\ "star" \in DOMAIN op.args.self
    /\ op.args.earthobs.class = "Observer"
    /\ err.kind = "ValueError"

\* the eleven bodies and their numbers, written out
BodyNumbers ==
    <<"mercury", "venus", "earth", "mars", "jupiter", "saturn", "uranus",
      "neptune", "pluto", "sun", "moon">>

\* C16: EphemObject given a name that is none of mercury, venus, earth,
\* mars, jupiter, saturn, uranus, neptune, pluto, sun, moon raises the
\* invalid-argument error before any call into the kernel module (the
\* handle allocation of the base class included); given one of these names
\* it calls make_object with type 0 and the number of that body.
C16_EphemObjectName ==
    op.name = "EphemObject" =>
        IF \E n \in DOMAIN BodyNumbers : BodyNumbers[n] = op.args.name
        THEN \E i \in DOMAIN calls :
                /\ calls[i].fn = "make_object"
                /\ calls[i].args[1] = 0
                /\ BodyNumbers[calls[i].args[2]] = op.args.name
        ELSE /\ err = ValueError
             /\ calls = << >>

\* the name under which an error reports a kernel routine
ErrorName(fn) ==
    CASE fn = "iauTaitt" -> "taitt"
      [] fn = "iauUtctai" -> "utctai"
      [] fn = "ephemeris_tweak" -> "ephemeris"
      [] OTHER -> fn

\* C17: every nonzero status that a kernel routine returns is raised as a
\* NovasError or SofaError carrying the name of that routine and the
\* status, at every raise site, the ephemeris query of EphemObject.ephem
\* included.
C17_StatusSurfaced ==
    \A i \in DOMAIN calls :
        calls[i].code # 0 =>
            /\ err.kind \in {"NovasError", "SofaError"}
            /\ err.func = ErrorName(calls[i].fn)
            /\ err.code = calls[i].code

\* a number below 100 in two digits
TwoDigits(n) == <<DigitChar(n \div 10), DigitChar(n % 10)>>

\* the last k digits of n, zeros included
RECURSIVE LastDigits(_, _)
LastDigits(n, k) ==
    IF k = 0 THEN << >> ELSE LastDigits(n \div 10, k - 1) \o <<DigitChar(n % 10)>>

\* a year in decimal
YearText(y) == IF y < 0 THEN <<"-">> \o Decimal(0 - y) ELSE Decimal(y)

C18_WitnessWhole ==
    /\ op.name = "fmtcalendar"
    /\ err = NoErr
    /\ op.x = 0
    /\ Len(ret.val) = 19

\* a status that stops the operation under the dubious-year rule: nonzero,
\* and not the status 1 accepted by dubiousok
Fatal(code, dubiousok) == code # 0 /\ ~(code = 1 /\ dubiousok)

\* C19: asTT on a UTC Time calls iauUtctai on the Time's jd1 and jd2 and
\* then iauTaitt on what iauUtctai returned, each once and in that order,
\* the status being checked after each: when iauUtctai returns a fatal
\* status iauTaitt is not called and no Time is returned.  asTT on a TAI
\* Time calls iauTaitt alone, once.
C19_AsTTChain ==
    op.name = "asTT" =>
        /\ heap[1].timescale = "UTC" =>
              /\ Len(calls) >= 1
              /\ calls[1].fn = "iauUtctai"
              /\ calls[1].args = <<heap[1].jd1[1], heap[1].jd2[1]>>
              /\ IF Fatal(calls[1].code, op.dubiousok)
                 THEN /\ Len(calls) = 1
                      /\ ret.ref = 0
                      /\ err.kind = "SofaError"
                 ELSE /\ Len(calls) = 2
                      /\ calls[2].fn = "iauTaitt"
                      /\ calls[2].args = calls[1].out
                      /\ Fatal(calls[2].code, op.dubiousok) =>
                            (ret.ref = 0 /\ err.kind = "SofaError")
        /\ heap[1].timescale = "TAI" =>
              /\ Len(calls) = 1
              /\ calls[1].fn = "iauTaitt"
              /\ calls[1].args = <<heap[1].jd1[1], heap[1].jd2[1]>>

\* the calls of the log that ask for a topocentric place
TopoAt == {i \in DOMAIN calls : calls[i].fn \in {"topo_star", "topo_planet"}}

\* the TT Julian Date of the Time heap[1] as the conversion before the
\* k-th call gave it
TTJulianDate(k) ==
    IF heap[1].timescale = "TT" THEN FAdd(heap[1].jd1[1], heap[1].jd2[1])
    ELSE FAdd(calls[k - 1].out[1], calls[k - 1].out[2])

\* C20: horizonpos asks for the topocentric place first and calls equ2hor
\* only after it, as its last call, giving it the topocentric ra and dec
\* (radians) converted to hours and degrees and UT1 = the TT Julian Date of
\* the time minus deltat; when the topocentric step fails equ2hor is not
\* called; on success the result is (az, 90 degrees - zd) in radians, the
\* refracted ra and dec being dropped.
C20_HorizonFromTopo ==
    op.name = "horizonpos" =>
        /\ \A k \in DOMAIN calls :
              calls[k].fn = "equ2hor" =>
                  /\ k = Len(calls)
                  /\ \E i \in TopoAt :
                        /\ i < k
                        /\ calls[i].code = 0
                        /\ calls[k].args[7] = R2H(H2R(calls[i].out[1]))
                        /\ calls[k].args[8] = R2D(D2R(calls[i].out[2]))
                  /\ heap[1].timescale # "TT" => calls[k - 1].fn = "iauTaitt"
                  /\ calls[k].args[1] = FSub(TTJulianDate(k), op.args.deltat)
                  /\ calls[k].args[2] = op.args.deltat
        /\ (TopoAt = {} \/ \E i \in TopoAt : calls[i].code # 0) =>
              /\ err # NoErr
              /\ \A k \in DOMAIN calls : calls[k].fn # "equ2hor"
        /\ err = NoErr =>
              /\ LastCall.fn = "equ2hor"
              /\ ret.val = <<D2R(LastCall.out[2]), D2R(90 * 100 - LastCall.out[1])>>

\* a planet above the horizon at a TAI Time with deltat = 69: az = 180
\* degrees and zd = 30 degrees give (pi, pi / 3)
C20_Witness ==
    /\ op.name = "horizonpos"
    /\ "number" \in DOMAIN op.args.self
    /\ heap[1].timescale = "TAI"
    /\ op.args.deltat # 0
    /\ err = NoErr
    /\ LastCall.fn = "equ2hor"
    /\ LastCall.args[1] # TTJulianDate(Len(calls))
    /\ LastCall.out[1] = 30 * 100
    /\ ret.val = <<31415, 10472>>

\* C21: a factory that fails leaves jd1, jd2 and the timescale of the Time
\* as they were before the call: fromJD and fromMJD given an invalid
\* timescale name, and fromcalendar and fromfdcal given an invalid
\* timescale name or when iauDtf2d returns a fatal status.
C21_FailedFactoryLeavesTime ==
    [][(/\ op'.name \in ValidatingFactories
        /\ \/ err'.kind = "ValueError"
           \/ /\ calls' # << >>
              /\ Fatal(calls'[Len(calls')].code, op'.dubiousok)) =>
          /\ err' # NoErr
          /\ heap'[1] = heap[1]]_vars

====
